---- MODULE Spec2Model ----
(***************************************************************************)
(* Model of get_notion_from_pdf.py: configuration check, upload of the     *)
(* PDF, GPT-4.1 JSON-mode call, GPT-4o structured call, one output file    *)
(* per call.                                                               *)
(*                                                                         *)
(* Text (Python str) is a sequence of tokens.  The structural characters   *)
(* of JSON and of paths are tokens of their own; every other token is a    *)
(* run of ordinary characters.                                             *)
(***************************************************************************)
EXTENDS Naturals, Sequences, FiniteSets

VARIABLES OPENAI_API_KEY, PDF_PATH, service, fs, pc, err, file_id,
          output_json, invocations, run, previous

vars == <<OPENAI_API_KEY, PDF_PATH, service, fs, pc, err, file_id,
          output_json, invocations, run, previous>>

\* Number of successive executions of the script that are explored.
MaxRuns == 2

\* ------------------------------------------------------------------ text

Q  == "\""
BS == "\\"
NL == "\n"
SP == " "

Whitespace == {SP, NL}

RECURSIVE Escape(_)
\* json.dump of a str with ensure_ascii=False: the body between the quotes.
Escape(s) ==
    IF s = <<>> THEN <<>>
    ELSE LET c == Head(s)
             e == IF c = Q THEN <<BS, Q>>
                  ELSE IF c = BS THEN <<BS, BS>>
                  ELSE IF c = NL THEN <<BS, "n">>
                  ELSE <<c>>
         IN e \o Escape(Tail(s))

\* json.dump(output_json, f, ensure_ascii=False, indent=2) where output_json
\* is the str held by message.content: a JSON string literal.
JsonDump(s) == <<Q>> \o Escape(s) \o <<Q>>

\* Variant: the file is opened with mode "a" and keeps what it held.
OpenForAppend(old) == [exists |-> TRUE, data |-> old.data]

\* open(output_path, "w"): the file exists and is empty.
OpenForWrite(old) == [exists |-> TRUE, data |-> <<>>]

\* f.write of the chunks json.dump produces, then close.
WriteTo(file, text) == [exists |-> TRUE, data |-> file.data \o text]

NoFile == [exists |-> FALSE, data |-> <<>>]

\* ------------------------------------------------------------------ JSON

\* A JSON value is [t, v]: t one of "str", "arr", "obj", "lit"; v the
\* tokens of a string, the items of an array, the key -> value mapping of
\* an object, the token of true / false / null / a number.
Literals == {"true", "false", "null", "0", "1", "4"}

Bad == [ok |-> FALSE, val |-> [t |-> "none", v |-> <<>>], rest |-> <<>>]
Good(val, rest) == [ok |-> TRUE, val |-> val, rest |-> rest]

RECURSIVE SkipWs(_)
SkipWs(s) ==
    IF s # <<>> /\ Head(s) \in Whitespace THEN SkipWs(Tail(s)) ELSE s

\* A dict built from (key, value) pairs in order: the last value of a key wins.
DictOf(pairs) ==
    [key \in {pairs[i].k : i \in DOMAIN pairs} |->
        pairs[CHOOSE i \in DOMAIN pairs :
                 /\ pairs[i].k = key
                 /\ \A j \in DOMAIN pairs : pairs[j].k = key => j <= i].v]

RECURSIVE ParseChars(_, _)
\* The body of a string literal, after its opening quote.
ParseChars(s, acc) ==
    IF s = <<>> THEN Bad
    ELSE IF Head(s) = Q THEN Good([t |-> "str", v |-> acc], Tail(s))
    ELSE IF Head(s) = NL THEN Bad
    ELSE IF Head(s) = BS
    THEN IF Len(s) < 2 THEN Bad
         ELSE IF s[2] \in {Q, BS}
         THEN ParseChars(SubSeq(s, 3, Len(s)), Append(acc, s[2]))
         ELSE IF s[2] = "n"
         THEN ParseChars(SubSeq(s, 3, Len(s)), Append(acc, NL))
         ELSE Bad
    ELSE ParseChars(Tail(s), Append(acc, Head(s)))

RECURSIVE ParseValue(_)
RECURSIVE ParseElements(_, _)
RECURSIVE ParseMembers(_, _)

ParseValue(s) ==
    LET t == SkipWs(s)
    IN IF t = <<>> THEN Bad
       ELSE IF Head(t) = Q THEN ParseChars(Tail(t), <<>>)
       ELSE IF Head(t) = "["
       THEN LET u == SkipWs(Tail(t))
            IN IF u # <<>> /\ Head(u) = "]"
               THEN Good([t |-> "arr", v |-> <<>>], Tail(u))
               ELSE ParseElements(u, <<>>)
       ELSE IF Head(t) = "{"
       THEN LET u == SkipWs(Tail(t))
            IN IF u # <<>> /\ Head(u) = "}"
               THEN Good([t |-> "obj", v |-> <<>>], Tail(u))
               ELSE ParseMembers(u, <<>>)
       ELSE IF Head(t) \in Literals
       THEN Good([t |-> "lit", v |-> <<Head(t)>>], Tail(t))
       ELSE Bad

ParseElements(s, acc) ==
    LET r == ParseValue(s)
        u == SkipWs(r.rest)
    IN IF ~r.ok \/ u = <<>> THEN Bad
       ELSE IF Head(u) = ","
       THEN ParseElements(Tail(u), Append(acc, r.val))
       ELSE IF Head(u) = "]"
       THEN Good([t |-> "arr", v |-> Append(acc, r.val)], Tail(u))
       ELSE Bad

ParseMembers(s, acc) ==
    LET t == SkipWs(s)
    IN IF t = <<>> \/ Head(t) # Q THEN Bad
       ELSE LET k == ParseChars(Tail(t), <<>>)
                u == SkipWs(k.rest)
            IN IF ~k.ok \/ u = <<>> \/ Head(u) # ":" THEN Bad
               ELSE LET r == ParseValue(Tail(u))
                        w == SkipWs(r.rest)
                        ps == Append(acc, [k |-> k.val.v, v |-> r.val])
                    IN IF ~r.ok \/ w = <<>> THEN Bad
                       ELSE IF Head(w) = ","
                       THEN ParseMembers(Tail(w), ps)
                       ELSE IF Head(w) = "}"
                       THEN Good([t |-> "obj", v |-> DictOf(ps)], Tail(w))
                       ELSE Bad

\* json.loads: one value, nothing but white space after it.
JsonLoads(text) ==
    LET r == ParseValue(text)
    IN IF r.ok /\ SkipWs(r.rest) = <<>> THEN r ELSE Bad

IsJson(text) == JsonLoads(text).ok

SameValue(a, b) == a.t = b.t /\ a.v = b.v

\* --------------------------------------------------------------- schema

Has(o, k) == <<k>> \in DOMAIN o.v
Field(o, k) == o.v[<<k>>]
HasAll(o, ks) == \A k \in ks : Has(o, k)

IsStringIn(x, enum) == x.t = "str" /\ x.v \in enum
IsArray(x) == x.t = "arr"
IsString(x) == x.t = "str"

ClasseOK(c) == IsStringIn(c, {<<"4e">>, <<"3e">>, <<"5e">>})

NotionOK(n) ==
    /\ n.t = "obj"
    /\ HasAll(n, {"nom_notion", "description", "classes", "prerequis"})
    /\ IsString(Field(n, "nom_notion"))
    /\ IsString(Field(n, "description"))
    /\ IsArray(Field(n, "classes"))
    /\ \A i \in DOMAIN Field(n, "classes").v : ClasseOK(Field(n, "classes").v[i])
    /\ Len(Field(n, "classes").v) >= 1
    /\ IsArray(Field(n, "prerequis"))
    /\ \A i \in DOMAIN Field(n, "prerequis").v : IsString(Field(n, "prerequis").v[i])

ChapitreOK(c) ==
    /\ c.t = "obj"
    /\ HasAll(c, {"nom_chapitre", "notions"})
    /\ IsString(Field(c, "nom_chapitre"))
    /\ IsArray(Field(c, "notions"))
    /\ \A i \in DOMAIN Field(c, "notions").v : NotionOK(Field(c, "notions").v[i])

\* The value validates against the schema of call 2.
Conforms(x) ==
    /\ x.t = "obj"
    /\ HasAll(x, {"matiere", "cycle", "chapitres"})
    /\ IsStringIn(Field(x, "matiere"), {<<"SVT">>})
    /\ IsStringIn(Field(x, "cycle"), {<<"cycle", SP, "4">>})
    /\ IsArray(Field(x, "chapitres"))
    /\ \A i \in DOMAIN Field(x, "chapitres").v : ChapitreOK(Field(x, "chapitres").v[i])

\* ----------------------------------------------------------------- paths

SEP == "/"
DOT == "."

RECURSIVE LastIndexOf(_, _)
\* str.rfind: the highest index holding token c, 0 when there is none.
LastIndexOf(s, c) ==
    IF s = <<>> THEN 0
    ELSE IF s[Len(s)] = c THEN Len(s)
    ELSE LastIndexOf(SubSeq(s, 1, Len(s) - 1), c)

\* os.path.basename: what follows the last separator.
basename(p) == SubSeq(p, LastIndexOf(p, SEP) + 1, Len(p))

\* os.path.splitext(b)[0] for a b without separator: cut at the last dot
\* unless only dots precede it.
splitext_root(b) ==
    LET i == LastIndexOf(b, DOT)
    IN IF i > 0 /\ (\E j \in 1..(i - 1) : b[j] # DOT)
       THEN SubSeq(b, 1, i - 1)
       ELSE b

base_name(p) == splitext_root(basename(p))

Suffix1 == <<"_gpt4-1_jsonmode", DOT, "json">>
Suffix2 == <<"_gpt4o_structured", DOT, "json">>

out1(p) == base_name(p) \o Suffix1
\* Variant: the second path is built with the suffix of the first.
out2SameSuffix(p) == base_name(p) \o Suffix1

out2(p) == base_name(p) \o Suffix2

\* ---------------------------------------------------------------- inputs

Str(w) == <<Q>> \o Escape(w) \o <<Q>>
Member(k, v) == Str(<<k>>) \o <<":">> \o v
Obj(ms) == <<"{">> \o ms \o <<"}">>
Arr(es) == <<"[">> \o es \o <<"]">>
Comma == <<",">>

HeaderText == Member("matiere", Str(<<"SVT">>)) \o Comma
              \o Member("cycle", Str(<<"cycle", SP, "4">>))

NotionText(class) ==
    Obj(Member("nom_notion", Str(<<"cellule">>)) \o Comma
        \o Member("description", Str(<<"dite", SP, Q, "unite", Q>>)) \o Comma
        \o Member("classes", Arr(Str(<<class>>))) \o Comma
        \o Member("prerequis", Arr(<<>>)))

ProgrammeText(class) ==
    Obj(HeaderText \o Comma
        \o Member("chapitres",
             Arr(Obj(Member("nom_chapitre", Str(<<"Le", SP, "vivant">>)) \o Comma
                     \o Member("notions", Arr(NotionText(class)))))))

\* Canned message.content values of the stubbed chat service.
TextEmptyProgramme == Obj(HeaderText \o Comma \o Member("chapitres", Arr(<<>>)))
TextProgramme      == ProgrammeText("4e")
TextNoChapitres    == Obj(HeaderText)
TextClasse6e       == ProgrammeText("6e")
TextScalar         == Str(<<"SVT">>)
TextProse          == <<"Voici", SP, "le", SP, "JSON", NL>>
                      \o <<"{">> \o HeaderText \o Comma
TextTruncated      == <<"{">> \o Str(<<"matiere">>) \o <<":">> \o <<Q, "SV">>

ResponseTexts == {TextEmptyProgramme, TextProgramme, TextNoChapitres,
                  TextClasse6e, TextScalar, TextProse, TextTruncated}

\* chat.completions.create either raises or returns a message content.
CallOutcomes == {[ok |-> FALSE, content |-> <<>>]}
                \cup {[ok |-> TRUE, content |-> t] : t \in ResponseTexts}

\* files.create raises, returns a mapping with an "id", or returns an
\* object that is not subscriptable.
UploadOutcomes == {[kind |-> "error", id |-> "none"],
                   [kind |-> "object", id |-> "file-1"],
                   [kind |-> "mapping", id |-> "file-1"],
                   [kind |-> "mapping", id |-> "file-2"]}

PathProg    == <<"prog", DOT, "pdf">>
PathInDir   == <<"docs", SEP, "prog", DOT, "pdf">>
PathTwoDots == <<"cours", DOT, "v2", DOT, "pdf">>
PathDotFile == <<DOT, "env">>
PathAbsent  == <<"absent", DOT, "pdf">>
PathDir     == <<"docs">>
PathEmpty   == <<>>

Paths == {PathProg, PathInDir, PathTwoDots, PathDotFile, PathAbsent,
          PathDir, PathEmpty}

\* The paths os.path.isfile answers True for.
RegularFiles == {PathProg, PathInDir, PathTwoDots, PathDotFile}

isfile(p) == p \in RegularFiles

\* os.getenv gives None for a variable that is not set.
Unset == [none |-> TRUE, value |-> <<>>]
Set(v) == [none |-> FALSE, value |-> v]

OutPaths == UNION {{out1(p), out2(p)} : p \in Paths}

\* ------------------------------------------------------------ the script

Init ==
    /\ OPENAI_API_KEY \in {Unset, Set(<<"sk-test">>)}
    /\ PDF_PATH \in {Unset} \cup {Set(p) : p \in Paths}
    /\ service \in [upload : UploadOutcomes, A : CallOutcomes, B : CallOutcomes]
    /\ fs = [p \in OutPaths |-> NoFile]
    /\ pc = "start"
    /\ err = "none"
    /\ file_id = "none"
    /\ output_json = <<>>
    /\ invocations = <<>>
    /\ run = 1
    /\ previous = [pc |-> "none", fs |-> fs]

Env == <<OPENAI_API_KEY, PDF_PATH, service>>

Fail(e) ==
    /\ pc' = "failed"
    /\ err' = e

\* Lines 27-36: load the configuration, refuse to go on without it.
LoadConfig ==
    /\ pc = "start"
    /\ IF OPENAI_API_KEY.none \/ PDF_PATH.none
       THEN Fail("RuntimeError")
       ELSE pc' = "main" /\ err' = err
    /\ UNCHANGED <<Env, fs, file_id, output_json, invocations, run, previous>>

\* Variant: upload_pdf sends the request without the os.path.isfile test.
UploadRequestUnchecked ==
    /\ pc = "main"
    /\ pc' = "uploading"
    /\ err' = err
    /\ invocations' = Append(invocations, [op |-> "upload", ref |-> "pdf"])
    /\ UNCHANGED <<Env, fs, file_id, output_json, run, previous>>

\* Lines 202, 43-49: upload_pdf up to the files.create request.
UploadRequest ==
    /\ pc = "main"
    /\ IF ~isfile(PDF_PATH.value)
       THEN Fail("FileNotFoundError") /\ invocations' = invocations
       ELSE /\ pc' = "uploading"
            /\ err' = err
            /\ invocations' = Append(invocations, [op |-> "upload", ref |-> "pdf"])
    /\ UNCHANGED <<Env, fs, file_id, output_json, run, previous>>

\* Lines 46-50, 202: files.create returns or raises; resp["id"].
UploadReturn ==
    /\ pc = "uploading"
    /\ IF service.upload.kind = "error"
       THEN Fail("ServiceError") /\ file_id' = file_id
       ELSE IF service.upload.kind = "object"
       THEN Fail("TypeError") /\ file_id' = file_id
       ELSE pc' = "loaded" /\ err' = err /\ file_id' = service.upload.id
    /\ UNCHANGED <<Env, fs, output_json, invocations, run, previous>>

\* The content reference the first call sends (user_data = file_id).
RefA == file_id

\* Variant: the second call sends a fixed reference.
RefBFixed == "file-1"

\* The content reference the second call sends (user_data = file_id).
RefB == file_id

\* Variant: the output file is opened before the request is sent.
CallARequestOpensFirst ==
    /\ pc = "loaded"
    /\ pc' = "callA"
    /\ invocations' = Append(invocations, [op |-> "A", ref |-> RefA])
    /\ fs' = [fs EXCEPT ![out1(PDF_PATH.value)] = [exists |-> TRUE, data |-> <<>>]]
    /\ UNCHANGED <<Env, err, file_id, output_json, run, previous>>

\* Lines 205-208, 59-100: the request of call 1 is sent.
CallARequest ==
    /\ pc = "loaded"
    /\ pc' = "callA"
    /\ invocations' = Append(invocations, [op |-> "A", ref |-> RefA])
    /\ UNCHANGED <<Env, fs, err, file_id, output_json, run, previous>>

\* Variant: call 1 returns to the main block without writing its file.
CallAReturnNoWrite ==
    /\ pc = "callA"
    /\ IF ~service.A.ok
       THEN Fail("ServiceError") /\ output_json' = output_json
       ELSE pc' = "callA_done" /\ err' = err /\ output_json' = service.A.content
    /\ UNCHANGED <<Env, fs, file_id, invocations, run, previous>>

\* Lines 93-103: the request returns or raises; output_json is the content.
CallAReturn ==
    /\ pc = "callA"
    /\ IF ~service.A.ok
       THEN Fail("ServiceError") /\ output_json' = output_json
       ELSE pc' = "openA" /\ err' = err /\ output_json' = service.A.content
    /\ UNCHANGED <<Env, fs, file_id, invocations, run, previous>>

\* Line 104: open(output_path, "w").
CallAOpen ==
    /\ pc = "openA"
    /\ pc' = "dumpA"
    /\ fs' = [fs EXCEPT ![out1(PDF_PATH.value)] = OpenForWrite(@)]
    /\ UNCHANGED <<Env, err, file_id, output_json, invocations, run, previous>>

\* Lines 105-107: json.dump, close, return to the main block.
CallADump ==
    /\ pc = "dumpA"
    /\ pc' = "callA_done"
    /\ fs' = [fs EXCEPT ![out1(PDF_PATH.value)] = WriteTo(@, JsonDump(output_json))]
    /\ UNCHANGED <<Env, err, file_id, output_json, invocations, run, previous>>

\* Lines 211-213, 117-189: the request of call 2 is sent.
CallBRequest ==
    /\ pc = "callA_done"
    /\ pc' = "callB"
    /\ invocations' = Append(invocations, [op |-> "B", ref |-> RefB])
    /\ UNCHANGED <<Env, fs, err, file_id, output_json, run, previous>>

\* Variant: an exception of the second request is caught and the run goes on.
CallBReturnSwallowed ==
    /\ pc = "callB"
    /\ IF ~service.B.ok
       THEN pc' = "callB_done" /\ err' = "ServiceError" /\ output_json' = output_json
       ELSE pc' = "openB" /\ err' = err /\ output_json' = service.B.content
    /\ UNCHANGED <<Env, fs, file_id, invocations, run, previous>>

\* Lines 181-192: the request returns or raises; output_json is the content.
CallBReturn ==
    /\ pc = "callB"
    /\ IF ~service.B.ok
       THEN Fail("ServiceError") /\ output_json' = output_json
       ELSE pc' = "openB" /\ err' = err /\ output_json' = service.B.content
    /\ UNCHANGED <<Env, fs, file_id, invocations, run, previous>>

\* Line 193: open(output_path, "w").
CallBOpen ==
    /\ pc = "openB"
    /\ pc' = "dumpB"
    /\ fs' = [fs EXCEPT ![out2(PDF_PATH.value)] = OpenForWrite(@)]
    /\ UNCHANGED <<Env, err, file_id, output_json, invocations, run, previous>>

\* Lines 194-196: json.dump, close, return to the main block.
CallBDump ==
    /\ pc = "dumpB"
    /\ pc' = "callB_done"
    /\ fs' = [fs EXCEPT ![out2(PDF_PATH.value)] = WriteTo(@, JsonDump(output_json))]
    /\ UNCHANGED <<Env, err, file_id, output_json, invocations, run, previous>>

\* Line 215: the last print; the process exits with status 0.
Finish ==
    /\ pc = "callB_done"
    /\ pc' = "finished"
    /\ UNCHANGED <<Env, fs, err, file_id, output_json, invocations, run, previous>>

Terminal == pc \in {"finished", "failed"}

\* The process is interrupted (KeyboardInterrupt) wherever it stands.
Interrupt ==
    /\ ~Terminal
    /\ Fail("KeyboardInterrupt")
    /\ UNCHANGED <<Env, fs, file_id, output_json, invocations, run, previous>>

\* The script is started again: same .env, same service, same directory.
\* The files of the ended run stay on disk; everything else starts anew.
RunAgain ==
    /\ Terminal
    /\ run < MaxRuns
    /\ run' = run + 1
    /\ previous' = [pc |-> pc, fs |-> fs]
    /\ pc' = "start"
    /\ err' = "none"
    /\ file_id' = "none"
    /\ output_json' = <<>>
    /\ invocations' = <<>>
    /\ UNCHANGED <<Env, fs>>

Next ==
    \/ LoadConfig
    \/ UploadRequest
    \/ UploadReturn
    \/ CallARequest
    \/ CallAReturn
    \/ CallAOpen
    \/ CallADump
    \/ CallBRequest
    \/ CallBReturn
    \/ CallBOpen
    \/ CallBDump
    \/ Finish
    \/ Interrupt
    \/ RunAgain

Spec == Init /\ [][Next]_vars

\* ============================================================ properties

Out1 == out1(PDF_PATH.value)
Out2 == out2(PDF_PATH.value)

ConfigOK == ~OPENAI_API_KEY.none /\ ~PDF_PATH.none /\ isfile(PDF_PATH.value)

Invoked(o) == {i \in DOMAIN invocations : invocations[i].op = o}

WellFormed(outcome) == outcome.ok /\ IsJson(outcome.content)

\* The run ended for no other reason than what the responses of the two
\* calls contain: the upload went through, no request raised, no interrupt.
EndedOnResponses ==
    /\ Terminal
    /\ run = 1
    /\ ConfigOK
    /\ service.upload.kind = "mapping"
    /\ service.A.ok
    /\ service.B.ok
    /\ err \notin {"KeyboardInterrupt", "ServiceError"}

\* C1: when call A returns text that is not JSON and call B returns
\* well-formed JSON, the run fails with a ParseError, no file is written for
\* call A, and call B is still invoked and its file written.
C1_ParseErrorOnCallA ==
    (EndedOnResponses /\ ~IsJson(service.A.content) /\ IsJson(service.B.content))
    => /\ pc = "failed"
       /\ err = "ParseError"
       /\ ~fs[Out1].exists
       /\ Invoked("B") # {}
       /\ fs[Out2].exists

\* C2: when call B returns JSON that violates the declared schema, the run
\* fails with a SchemaError and the file of call B is not written.
C2_SchemaErrorOnCallB ==
    (/\ EndedOnResponses
     /\ IsJson(service.A.content)
     /\ IsJson(service.B.content)
     /\ ~Conforms(JsonLoads(service.B.content).val))
    => /\ pc = "failed"
       /\ err = "SchemaError"
       /\ ~fs[Out2].exists

\* C3: if the credential or the document path is missing, or the path is
\* not an existing regular file, no network operation is ever invoked and
\* the run can only end failed.
C3_NoNetworkWithoutConfig ==
    ~ConfigOK => /\ invocations = <<>>
                 /\ pc \in {"start", "main", "failed"}

C3_Witness ==
    /\ pc = "failed"
    /\ err = "FileNotFoundError"
    /\ ~PDF_PATH.none
    /\ ~isfile(PDF_PATH.value)
    /\ invocations = <<>>

\* C4: when both calls return well-formed JSON text, a finished run has
\* created both files and each file decodes to the value obtained by
\* parsing the text returned for its call.
C4_FilesHoldParsedValue ==
    (pc = "finished" /\ WellFormed(service.A) /\ WellFormed(service.B))
    => /\ fs[Out1].exists
       /\ fs[Out2].exists
       /\ IsJson(fs[Out1].data)
       /\ IsJson(fs[Out2].data)
       /\ SameValue(JsonLoads(fs[Out1].data).val, JsonLoads(service.A.content).val)
       /\ SameValue(JsonLoads(fs[Out2].data).val, JsonLoads(service.B.content).val)

\* The state of the run in the terms of the specification.
RunState(p) ==
    IF p \in {"start", "main", "uploading"} THEN "INIT"
    ELSE IF p \in {"loaded", "callA", "openA", "dumpA"} THEN "LOADED"
    ELSE IF p \in {"callA_done", "callB", "openB", "dumpB"} THEN "CALL_A_DONE"
    ELSE IF p = "callB_done" THEN "CALL_B_DONE"
    ELSE IF p = "finished" THEN "FINISHED"
    ELSE "FAILED"

Rank(st) ==
    IF st = "INIT" THEN 0
    ELSE IF st = "LOADED" THEN 1
    ELSE IF st = "CALL_A_DONE" THEN 2
    ELSE IF st = "CALL_B_DONE" THEN 3
    ELSE 4

\* C5: within a run the state only stays, moves to the next of INIT,
\* LOADED, CALL_A_DONE, CALL_B_DONE, FINISHED without an error, or moves
\* from a non-terminal state to FAILED with an error; FINISHED and FAILED
\* are never left and a run with an error is never FINISHED.
C5_StateMachineOrder ==
    [][run' = run =>
         LET st == RunState(pc)
             nx == RunState(pc')
         IN /\ \/ nx = st /\ err' = err
               \/ /\ st \notin {"FINISHED", "FAILED"}
                  /\ nx = "FAILED"
                  /\ err' # "none"
               \/ /\ st \notin {"FINISHED", "FAILED"}
                  /\ nx # "FAILED"
                  /\ Rank(nx) = Rank(st) + 1
                  /\ err' = "none"
            /\ (err' # "none" => nx = "FAILED")]_vars

C5_Witness ==
    /\ pc = "failed"
    /\ err = "ServiceError"
    /\ Invoked("B") # {}
    /\ fs[Out1].exists

\* C6: in a run the upload, call A and call B are each invoked at most
\* once; a finished run invoked each exactly once and both calls carried the
\* content reference the upload returned.
C6_EachOperationOnce ==
    /\ \A o \in {"upload", "A", "B"} : Cardinality(Invoked(o)) <= 1
    /\ pc = "finished" =>
          /\ \A o \in {"upload", "A", "B"} : Cardinality(Invoked(o)) = 1
          /\ \A i \in Invoked("A") \cup Invoked("B") :
                invocations[i].ref = service.upload.id

C6_Witness ==
    /\ pc = "finished"
    /\ service.upload.id = "file-2"
    /\ Len(invocations) = 3

\* C7: a finished run that follows a finished run leaves every output file
\* exactly as the earlier run left it, and only the two paths of the
\* document hold a file.
C7_SecondRunSameFiles ==
    (run > 1 /\ pc = "finished" /\ previous.pc = "finished")
    => /\ fs = previous.fs
       /\ \A p \in OutPaths : fs[p].exists <=> p \in {Out1, Out2}

C7_Witness ==
    /\ run > 1
    /\ pc = "finished"
    /\ previous.pc = "finished"
    /\ fs[Out1].data # <<>>

\* C8: call A is invoked only after the upload has returned its reference,
\* and call B is invoked only after the response of call A has been
\* received and written in full to the file of call A.
C8_StrictOrder ==
    /\ \A i \in Invoked("A") :
          /\ \E j \in Invoked("upload") : j < i
          /\ service.upload.kind = "mapping"
          /\ file_id = service.upload.id
    /\ \A i \in Invoked("B") :
          /\ \E j \in Invoked("A") : j < i
          /\ service.A.ok
          /\ fs[Out1] = [exists |-> TRUE, data |-> JsonDump(service.A.content)]

C8_Witness ==
    /\ run = 1
    /\ pc = "callB"
    /\ fs[Out1].exists
    /\ ~fs[Out2].exists

BeforeReturnA == {"start", "main", "uploading", "loaded", "callA"}
BeforeReturnB == BeforeReturnA \cup {"openA", "dumpA", "callA_done", "callB"}

\* C9: as long as the request of a call has not returned, the file of that
\* call is as it was when the run started (absent in a fresh directory),
\* and a step taken from there, a failure or an interrupt included,
\* leaves it so.
C9_NoFileBeforeReturn ==
    [][/\ pc \in BeforeReturnA =>
             fs[Out1] = previous.fs[Out1] /\ fs'[Out1] = fs[Out1]
       /\ pc \in BeforeReturnB =>
             fs[Out2] = previous.fs[Out2] /\ fs'[Out2] = fs[Out2]
       /\ (run = 1 /\ pc \in BeforeReturnA) => ~fs'[Out1].exists
       /\ (run = 1 /\ pc \in BeforeReturnB) => ~fs'[Out2].exists]_vars

C9_Witness ==
    /\ run = 1
    /\ pc = "failed"
    /\ err = "KeyboardInterrupt"
    /\ Invoked("B") # {}
    /\ output_json = service.A.content
    /\ ~fs[Out2].exists

\* C10: the two output paths of a document differ; a step of call B leaves
\* the file of call A as it is, and a step changes no file but the one of
\* the call it belongs to.
C10_OwnPathOnly ==
    [][/\ \A p \in Paths : out1(p) # out2(p)
       /\ pc \in {"callA_done", "callB", "openB", "dumpB"} => fs'[Out1] = fs[Out1]
       /\ \A p \in OutPaths :
             fs'[p] # fs[p] =>
                \/ pc \in {"openA", "dumpA"} /\ p = Out1
                \/ pc \in {"openB", "dumpB"} /\ p = Out2]_vars

C10_Witness ==
    /\ pc = "callB_done"
    /\ fs[Out1] = [exists |-> TRUE, data |-> JsonDump(service.A.content)]
    /\ fs[Out2] = [exists |-> TRUE, data |-> JsonDump(service.B.content)]
    /\ service.A.content # service.B.content

====
